---- MODULE Spec2Model ----
(***************************************************************************)
(* Omnivore webhook handler: label classification, label-action           *)
(* resolution, prompt assembly and dispatch, as implemented by            *)
(*   src/api/annotate.ts                  (variant "api")                  *)
(*   src/unnamed/part_000 lines 101-924   (variant "log", verbose logging) *)
(*   src/unnamed/part_000 lines 926-1545  (variant "legacy")               *)
(*                                                                         *)
(* A JavaScript string is modelled as a sequence of characters, each a    *)
(* one-character TLA+ string.  A longer element stands for a literal of   *)
(* the source that no operation of the handler ever takes apart (for      *)
(* instance "Article title: ").  null and undefined are two sequences     *)
(* that no string of the model is equal to.                               *)
(***************************************************************************)
EXTENDS Integers, Sequences, FiniteSets, TLC

VARIABLES
    variant,        \* which handler is deployed: "api", "log" or "legacy"
    annotateLabel,  \* process.env["OMNIVORE_ANNOTATE_LABEL"] ?? "do"
    OPENAI_PROMPT,  \* process.env["OPENAI_PROMPT"], UNDEFINED when unset
    store,          \* the article as Omnivore holds it
    inv,            \* the invocations of the handler, one record each
    arg,            \* input of the function under test (function specifications)
    ret             \* its result

vars == <<variant, annotateLabel, OPENAI_PROMPT, store, inv, arg, ret>>

-----------------------------------------------------------------------------
(* Bounds of the model *)

\* longest label list of a webhook event, in the classifier's specification
MaxLabels == 3

\* longest fragment array handed to the prompt assembler
MaxFragments == 4

\* longest list of matching label names handed to the resolver
MaxMatching == 2

\* longest completion text handed to the escaping of the annotation
MaxContent == 4

\* most labels on the article, in the resolver's specification
MaxArticleLabels == 2

\* longest label list of a webhook event delivered to the handler
MaxEventLabels == 2

-----------------------------------------------------------------------------
(* JavaScript values and string operations *)

NULL == <<"<null>">>
UNDEFINED == <<"<undefined>">>

\* typeof v === "string"
IsString(v) == v # NULL /\ v # UNDEFINED

\* JavaScript truthiness of a string-or-null-or-undefined value
Truthy(v) == IsString(v) /\ v # <<>>

\* a || b on such values
OrElse(a, b) == IF Truthy(a) THEN a ELSE b

WhiteSpace == {" ", "\n", "\t"}

RECURSIVE trimStart(_)
trimStart(s) ==
    IF s # <<>> /\ Head(s) \in WhiteSpace THEN trimStart(Tail(s)) ELSE s

RECURSIVE trimEnd(_)
trimEnd(s) ==
    IF s # <<>> /\ s[Len(s)] \in WhiteSpace
    THEN trimEnd(SubSeq(s, 1, Len(s) - 1))
    ELSE s

\* String.prototype.trim
trim(s) == trimEnd(trimStart(s))

\* String.prototype.startsWith
startsWith(s, prefix) ==
    Len(prefix) <= Len(s) /\ SubSeq(s, 1, Len(prefix)) = prefix

\* the least element of a set of positions, 0 for the empty set
firstOf(S) == IF S = {} THEN 0 ELSE CHOOSE i \in S : \A j \in S : i <= j

\* String.prototype.indexOf, 1-based; 0 when pat does not occur
indexOf(s, pat) ==
    LET hits == {i \in 1..(Len(s) - Len(pat) + 1) :
                    SubSeq(s, i, i + Len(pat) - 1) = pat}
    IN  firstOf(hits)

\* String.prototype.replace with a string pattern: the first occurrence only
replace(s, pat, rep) ==
    LET i == indexOf(s, pat)
    IN  IF i = 0 THEN s
        ELSE SubSeq(s, 1, i - 1) \o rep \o SubSeq(s, i + Len(pat), Len(s))

\* String.prototype.split with a one-character separator
RECURSIVE split(_, _)
split(s, sep) ==
    LET i == indexOf(s, <<sep>>)
    IN  IF i = 0 THEN <<s>>
        ELSE <<SubSeq(s, 1, i - 1)>> \o split(SubSeq(s, i + 1, Len(s)), sep)

\* a[i] of a JavaScript array (0-based), undefined past its end
At(a, i) == IF i + 1 \in DOMAIN a THEN a[i + 1] ELSE UNDEFINED

\* Array.prototype.join
RECURSIVE join(_, _)
join(a, sep) ==
    IF a = <<>> THEN <<>>
    ELSE IF Len(a) = 1 THEN a[1]
    ELSE a[1] \o sep \o join(Tail(a), sep)

\* all sequences over S of length at most n
RECURSIVE SeqsUpTo(_, _)
SeqsUpTo(S, n) ==
    IF n = 0 THEN {<<>>}
    ELSE LET shorter == SeqsUpTo(S, n - 1)
         IN  shorter \cup {Append(s, x) : s \in {t \in shorter : Len(t) = n - 1}, x \in S}

-----------------------------------------------------------------------------
(* Label names used by the model *)

do == <<"d", "o">>
d == <<"d">>
do_tags == <<"d", "o", ":", "t", "a", "g", "s">>
do_sum == <<"d", "o", ":", "s", "u", "m">>
doing == <<"d", "o", "i", "n", "g">>
did_tags == <<"d", "i", "d", ":", "t", "a", "g", "s">>
d_x == <<"d", ":", "x">>
do_a_b == <<"d", "o", ":", "a", ":", "b">>
do_do_x == <<"d", "o", ":", "d", "o", ":", "x">>
tags == <<"t", "a", "g", "s">>
did == <<"d", "i", "d", ":">>

-----------------------------------------------------------------------------
(* Webhook payload *)

\* An entry of body.label.labels as it arrives on the wire: JSON null, a JSON
\* string, or an object, with or without a name field; the name of an object
\* is a string or, the payload being untyped, some other JSON value (null).
Entry(type, hasName, name) == [type |-> type, hasName |-> hasName, name |-> name]
NamedEntry(name) == Entry("object", TRUE, name)
NullEntry == Entry("null", FALSE, UNDEFINED)
StringEntry == Entry("string", FALSE, UNDEFINED)
NamelessEntry == Entry("object", FALSE, UNDEFINED)
NullNameEntry == Entry("object", TRUE, NULL)

\* !!label && typeof label === 'object' && 'name' in label
IsWebhookLabel(label) == label.type = "object" /\ label.hasName

\* (body.label?.labels || []).filter(...)
filterLabels(rawLabels) == SelectSeq(rawLabels, IsWebhookLabel)

matchesTriggerLoose(name, trigger) == name = trigger \/ startsWith(name, trigger)

\* label.name === annotateLabel || label.name.startsWith(`${annotateLabel}:`)
matchesTrigger(name, trigger) ==
    name = trigger \/ startsWith(name, trigger \o <<":">>)

\* label.name.startsWith of a name that is no string is a TypeError
matchingThrows(labels) == \E i \in DOMAIN labels : ~IsString(labels[i].name)

\* labels.filter(...).map(label => label.name)
matchingLabelsOf(labels, trigger) ==
    LET hit(label) == matchesTrigger(label.name, trigger)
        hits == SelectSeq(labels, hit)
    IN  [i \in 1..Len(hits) |-> hits[i].name]

\* The handler from the label filter to the matching-label check (the two
\* handlers hold the same text): status 400 for the two early returns, 500 for
\* a TypeError caught by the handler's catch, 0 when the handler goes on.
classify(rawLabels, trigger) ==
    LET labels == filterLabels(rawLabels)
    IN  IF labels = <<>>
        THEN [threw |-> FALSE, status |-> 400, matchingLabels |-> <<>>,
              text |-> "No labels found in the webhook payload."]
        ELSE IF matchingThrows(labels)
        THEN [threw |-> TRUE, status |-> 500, matchingLabels |-> <<>>,
              text |-> "Error processing Omnivore webhook"]
        ELSE LET m == matchingLabelsOf(labels, trigger)
             IN  [threw |-> FALSE,
                  status |-> IF m = <<>> THEN 400 ELSE 0,
                  matchingLabels |-> m,
                  text |-> IF m = <<>> THEN "No annotate labels found." ELSE ""]

-----------------------------------------------------------------------------
(* Values the function specifications leave alone *)

NoStore == [labels |-> <<>>, highlights |-> <<>>]

\* no invocation is running and the article is not looked at
Idle ==
    /\ store = NoStore
    /\ inv = <<>>

-----------------------------------------------------------------------------
(* Specification of the label classifier: handler lines 112-128 *)

ClassifyNames == {do, do_tags, doing, did_tags, d, d_x}
ClassifyEntries ==
    {NamedEntry(n) : n \in ClassifyNames}
        \cup {NullEntry, StringEntry, NamelessEntry, NullNameEntry}
Triggers == {do, d}

InitClassify ==
    /\ Idle
    /\ variant \in {"api", "log"}
    /\ annotateLabel \in Triggers
    /\ OPENAI_PROMPT = UNDEFINED
    /\ arg \in [fn : {"classify"},
                rawLabels : SeqsUpTo(ClassifyEntries, MaxLabels)]
    /\ ret = [fn |-> "none"]

\* the handler from the label filter to the matching-label check
Classify ==
    /\ arg.fn = "classify"
    /\ ret.fn = "none"
    /\ ret' = [fn |-> "classify"] @@ classify(arg.rawLabels, annotateLabel)
    /\ UNCHANGED <<variant, annotateLabel, OPENAI_PROMPT, store, inv, arg>>

NextClassify == Classify

SpecClassify == InitClassify /\ [][NextClassify]_vars

\* the entries of L that qualify for trigger T, by position
Qualifies(e, T) ==
    /\ e.type = "object" /\ e.hasName /\ IsString(e.name)
    /\ Len(e.name) >= Len(T)
    /\ \A j \in 1..Len(T) : e.name[j] = T[j]
    /\ (Len(e.name) > Len(T) => e.name[Len(T) + 1] = ":")

QualifyingAt(L, T) == {i \in DOMAIN L : Qualifies(L[i], T)}

\* the k-th smallest element of a set of numbers
Kth(S, k) == CHOOSE i \in S : Cardinality({j \in S : j <= i}) = k

\* C1: whenever the handler computes the matching-label list of an event, the
\* list holds exactly the names of the entries whose name equals the trigger or
\* starts with the trigger followed by ':', in the order of the event, one per
\* occurrence; it is empty iff no entry qualifies.
C1_ClassifyExact ==
    (ret.fn = "classify" /\ ~ret.threw) =>
        LET Q == QualifyingAt(arg.rawLabels, annotateLabel)
            m == ret.matchingLabels
        IN  /\ Len(m) = Cardinality(Q)
            /\ \A k \in 1..Len(m) : m[k] = arg.rawLabels[Kth(Q, k)].name
            /\ (m = <<>>) <=> (Q = {})

C1_Witness ==
    /\ ret.fn = "classify" /\ ~ret.threw
    /\ annotateLabel = do
    /\ arg.rawLabels = <<NamedEntry(do_tags), NamedEntry(doing), NamedEntry(do_tags)>>
    /\ ret.matchingLabels = <<do_tags, do_tags>>

-----------------------------------------------------------------------------
(* Prompt assembler: the three copies of arrayToPromptGenerator *)

\* .map((item) => `- ${item}`)
bullets(items) == [i \in 1..Len(items) |-> <<"-", " ">> \o items[i]]

\* src/api/annotate.ts:
\*   filter(item => item !== null && item.trim() !== "").map(`- ${item}`).join("\n")
arrayToPromptGenerator_api(array) ==
    LET keep(item) == item # NULL /\ trim(item) # <<>>
    IN  join(bullets(SelectSeq(array, keep)), <<"\n">>)

\* src/unnamed/part_000 line 494: filter(item => item !== null) only
arrayToPromptGenerator_log(array) ==
    LET keep(item) == item # NULL
    IN  join(bullets(SelectSeq(array, keep)), <<"\n">>)

\* src/unnamed/part_000 line 1227: the same text as the copy of annotate.ts
arrayToPromptGenerator_legacy(array) ==
    LET keep(item) == item # NULL /\ trim(item) # <<>>
    IN  join(bullets(SelectSeq(array, keep)), <<"\n">>)

\* the copy a handler variant calls
arrayToPromptGenerator(v, array) ==
    CASE v = "api" -> arrayToPromptGenerator_api(array)
      [] v = "log" -> arrayToPromptGenerator_log(array)
      [] v = "legacy" -> arrayToPromptGenerator_legacy(array)

-----------------------------------------------------------------------------
(* Specification of the prompt assembler *)

Fragments == {NULL, <<>>, <<" ">>, <<"a">>, <<"b">>}

InitAssemble ==
    /\ Idle
    /\ variant \in {"api", "log", "legacy"}
    /\ annotateLabel = do
    /\ OPENAI_PROMPT = UNDEFINED
    /\ arg \in [fn : {"assemble"}, array : SeqsUpTo(Fragments, MaxFragments)]
    /\ ret = [fn |-> "none"]

Assemble ==
    /\ arg.fn = "assemble"
    /\ ret.fn = "none"
    /\ ret' = [fn |-> "assemble", prompt |-> arrayToPromptGenerator(variant, arg.array)]
    /\ UNCHANGED <<variant, annotateLabel, OPENAI_PROMPT, store, inv, arg>>

NextAssemble == Assemble

SpecAssemble == InitAssemble /\ [][NextAssemble]_vars

\* a fragment that survives: not null and not empty once trimmed
Survives(f) == f # NULL /\ \E i \in DOMAIN f : f[i] \notin WhiteSpace

\* the lines of a prompt: the text between its newlines
RECURSIVE ExpectedPrompt(_)
ExpectedPrompt(array) ==
    IF array = <<>> THEN <<>>
    ELSE LET rest == ExpectedPrompt(Tail(array))
         IN  IF ~Survives(Head(array)) THEN rest
             ELSE IF rest = <<>> THEN <<"-", " ">> \o Head(array)
             ELSE <<"-", " ">> \o Head(array) \o <<"\n">> \o rest

\* C6: every copy of the prompt assembler returns the fragments that are
\* neither null nor empty after trimming, in their order, each prefixed with
\* "- " and joined by one newline; ["a", null, "", "b"] gives "- a\n- b".
C6_AssembleDropsEmpty ==
    ret.fn = "assemble" =>
        /\ ret.prompt = ExpectedPrompt(arg.array)
        /\ (arg.array = <<<<"a">>, NULL, <<>>, <<"b">>>> =>
                ret.prompt = <<"-", " ", "a", "\n", "-", " ", "b">>)

-----------------------------------------------------------------------------
(* Label-action resolver: getLabelAction and its helpers *)

\* an article label as the Article query returns it
Label(name, description) == [name |-> name, description |-> description]

\* highlights.find(({ type }) => type === "NOTE")
NoNote == [present |-> FALSE, id |-> UNDEFINED]

existingNoteOfNone(highlights) == NoNote

existingNoteOfAlways(highlights) == [present |-> TRUE, id |-> UNDEFINED]

existingNoteOf(highlights) ==
    LET notes == {i \in DOMAIN highlights : highlights[i].type = "NOTE"}
    IN  IF notes = {} THEN NoNote
        ELSE [present |-> TRUE, id |-> highlights[firstOf(notes)].id]

TLDR == <<"Return a tweet-length TL;DR of the following article.">>

\* labels.find(l => l.name === labelName)?.description
getLabelDescription(labelName, labels) ==
    LET hits == {i \in DOMAIN labels : labels[i].name = labelName}
    IN  IF hits = {} THEN UNDEFINED ELSE labels[firstOf(hits)].description

promptWithFallbackOfNullish(description, envPrompt) ==
    IF IsString(description) THEN description
    ELSE IF IsString(envPrompt) THEN envPrompt
    ELSE TLDR

\* description || process.env["OPENAI_PROMPT"] || "Return a tweet-length ..."
promptWithFallbackOf(description, envPrompt) ==
    OrElse(description, OrElse(envPrompt, TLDR))

\* the four fragments of an action, the last one "" without an existing note
promptBodyArray(promptWithFallback, article) ==
    << promptWithFallback,
       <<"Article title: ">> \o article.title,
       <<"Article content: ">> \o article.content,
       IF article.existingNote.present
       THEN <<"Existing note: ", "[object Object]">>
       ELSE <<>> >>

replacedLabelOfBare(label, trigger) == replace(label, trigger, <<"d", "i", "d">>)

\* label.replace(`${annotateLabel}:`, "did:")
replacedLabelOf(label, trigger) == replace(label, trigger \o <<":">>, did)

\* label.split(":")[0]
processLabelOf(label) == At(split(label, ":"), 0)

\* label.split(":")[1]
actionOf(label) == At(split(label, ":"), 1)

\* one LabelAction; the copy of part_000 (line 528) sets no done field
labelActionOf(v, label, article, trigger, envPrompt) ==
    LET description == getLabelDescription(label, article.labels)
        promptWithFallback == promptWithFallbackOf(description, envPrompt)
    IN  IF v = "api"
        THEN [label |-> label,
              replacedLabel |-> replacedLabelOf(label, trigger),
              processLabel |-> processLabelOf(label),
              action |-> actionOf(label),
              description |-> description,
              prompts |-> promptBodyArray(promptWithFallback, article),
              done |-> FALSE]
        ELSE [label |-> label,
              replacedLabel |-> replacedLabelOf(label, trigger),
              processLabel |-> processLabelOf(label),
              action |-> actionOf(label),
              description |-> description,
              prompts |-> promptBodyArray(promptWithFallback, article)]

\* matchingLabels.map(label => ...)
getLabelAction(v, matchingLabels, article, trigger, envPrompt) ==
    [i \in 1..Len(matchingLabels) |->
        labelActionOf(v, matchingLabels[i], article, trigger, envPrompt)]

-----------------------------------------------------------------------------
(* Specification of the resolver *)

\* label lists in which no name occurs twice (Omnivore keeps names unique)
UniqueNames(labels) ==
    \A i, j \in DOMAIN labels : labels[i].name = labels[j].name => i = j

ResolveNames == {do, do_tags, do_sum, do_a_b, do_do_x, d, d_x}
Descriptions == {NULL, <<>>, <<"D">>}
ResolveLabels == {Label(n, desc) : n \in {do_tags, do_sum}, desc \in Descriptions}
EnvPrompts == {UNDEFINED, <<>>, <<"E">>}

\* the identifiers uuidv4() can return, and a note of the article
Uuid1 == <<"1", "a", "2", "b", "3", "c", "4", "d", "-", "5", "e">>
Uuid2 == <<"9", "f", "8", "e", "7", "d", "6", "c", "-", "5", "b">>
Uuid3 == <<"0", "0", "7", "a", "c", "c", "1", "e", "-", "4", "d">>
Uuids == {Uuid1, Uuid2, Uuid3}
Note(id) == [id |-> id, type |-> "NOTE"]
Highlight(id) == [id |-> id, type |-> "HIGHLIGHT"]

\* the article object getArticle builds from the response of the Article query
Article(articleId, labels, highlights) ==
    [id |-> articleId, title |-> <<"T">>, content |-> <<"C">>,
     labels |-> labels, highlights |-> highlights,
     existingNote |-> existingNoteOf(highlights)]

ResolveArticles ==
    {Article(<<"p">>, l, h) :
        l \in {ls \in SeqsUpTo(ResolveLabels, MaxArticleLabels) : UniqueNames(ls)},
        h \in {<<>>, <<Note(Uuid1)>>}}

InitResolve ==
    /\ Idle
    /\ variant \in {"api", "log"}
    /\ annotateLabel \in Triggers
    /\ OPENAI_PROMPT \in EnvPrompts
    /\ arg \in [fn : {"resolve"},
                matchingLabels :
                    SeqsUpTo({n \in ResolveNames : matchesTrigger(n, annotateLabel)},
                             MaxMatching),
                article : ResolveArticles]
    /\ ret = [fn |-> "none"]

Resolve ==
    /\ arg.fn = "resolve"
    /\ ret.fn = "none"
    /\ ret' = [fn |-> "resolve",
               labelActions |-> getLabelAction(variant, arg.matchingLabels, arg.article,
                                               annotateLabel, OPENAI_PROMPT)]
    /\ UNCHANGED <<variant, annotateLabel, OPENAI_PROMPT, store, inv, arg>>

NextResolve == Resolve

SpecResolve == InitResolve /\ [][NextResolve]_vars

\* name with its leading "T:" replaced by "did:", a name without it unchanged
LeadingReplaced(name, T) ==
    IF Len(name) > Len(T) /\ SubSeq(name, 1, Len(T)) = T /\ name[Len(T) + 1] = ":"
    THEN <<"d", "i", "d", ":">> \o SubSeq(name, Len(T) + 2, Len(name))
    ELSE name

\* C7: the resolver returns one LabelAction per matching name, in input order
\* with duplicates kept; the i-th action carries the i-th name as its label and,
\* as replacedLabel, that name with only its leading "T:" replaced by "did:"
\* (a bare trigger name is left unchanged).
C7_OneActionPerName ==
    ret.fn = "resolve" =>
        /\ Len(ret.labelActions) = Len(arg.matchingLabels)
        /\ \A i \in 1..Len(arg.matchingLabels) :
              /\ ret.labelActions[i].label = arg.matchingLabels[i]
              /\ ret.labelActions[i].replacedLabel =
                    LeadingReplaced(arg.matchingLabels[i], annotateLabel)

C7_Witness ==
    /\ ret.fn = "resolve"
    /\ annotateLabel = do
    /\ arg.matchingLabels = <<do_do_x, do>>
    /\ ret.labelActions[1].replacedLabel = <<"d", "i", "d", ":", "d", "o", ":", "x">>
    /\ ret.labelActions[2].replacedLabel = do

\* the whole text after the first ':' of a name, "" for a name without ':'
AfterFirstColon(name) ==
    LET colons == {i \in DOMAIN name : name[i] = ":"}
    IN  IF colons = {} THEN <<>>
        ELSE SubSeq(name, (CHOOSE i \in colons : \A j \in colons : i <= j) + 1,
                    Len(name))

\* C8: the operation of a resolved action is the whole substring after the
\* first ':' of its label ("a:b" for "do:a:b") and the empty string for the
\* bare trigger (an operation left undefined is read as empty here).
C8_OperationAfterFirstColon ==
    ret.fn = "resolve" =>
        \A i \in 1..Len(ret.labelActions) :
            OrElse(ret.labelActions[i].action, <<>>) =
                AfterFirstColon(arg.matchingLabels[i])

\* C9: the prompt template of an action is the first non-empty value of: the
\* description of the article's label of exactly that name; the configured
\* default prompt; the literal TL;DR prompt.
C9_PromptFallbackChain ==
    ret.fn = "resolve" =>
        \A i \in 1..Len(ret.labelActions) :
            LET name == arg.matchingLabels[i]
                same == {l \in {arg.article.labels[k] : k \in DOMAIN arg.article.labels} :
                            l.name = name}
                described == {l \in same : l.description \notin {NULL, UNDEFINED, <<>>}}
                template == ret.labelActions[i].prompts[1]
            IN  /\ described # {} => \E l \in described : template = l.description
                /\ (described = {} /\ OPENAI_PROMPT \notin {UNDEFINED, <<>>}) =>
                        template = OPENAI_PROMPT
                /\ (described = {} /\ OPENAI_PROMPT \in {UNDEFINED, <<>>}) =>
                        template = <<"Return a tweet-length TL;DR of the following article.">>

\* the three levels, each reached: a described label, an empty description with
\* a configured prompt, and a missing label with no configured prompt
C9_Witness ==
    /\ ret.fn = "resolve"
    /\ variant = "api"
    /\ arg.matchingLabels = <<do_tags, do_sum>>
    /\ arg.article.labels = <<Label(do_tags, <<"D">>)>>
    /\ OPENAI_PROMPT = UNDEFINED
    /\ ret.labelActions[1].prompts[1] = <<"D">>
    /\ ret.labelActions[2].prompts[1] = TLDR

-----------------------------------------------------------------------------
(* Dispatch helpers of the two handlers *)

\* label.done === false; an action without a done field has done undefined
doneIsFalse(label) == "done" \in DOMAIN label /\ label.done = FALSE

\* src/api/annotate.ts lines 186-191: the callback of find has a block body
\* without a return statement, so it yields undefined for every element
resolvedLabelActions_api(currentAction, labelActions) ==
    LET callback(label) == FALSE
        i == firstOf({k \in DOMAIN labelActions : callback(labelActions[k])})
    IN  [found |-> i # 0, index |-> i]

resolvedLabelActions_logFirstOnly(currentAction, myLabelAction) ==
    LET found == myLabelAction # <<>> /\ myLabelAction[1].action = currentAction
    IN  [found |-> found, index |-> IF found THEN 1 ELSE 0]

\* src/unnamed/part_000 lines 380-392
resolvedLabelActions_log(currentAction, myLabelAction) ==
    LET callback(label) == label.action = currentAction
        i == firstOf({k \in DOMAIN myLabelAction : callback(myLabelAction[k])})
    IN  [found |-> i # 0, index |-> i]

resolvedLabelActions(v, currentAction, labelActions) ==
    IF v = "api"
    THEN resolvedLabelActions_api(currentAction, labelActions)
    ELSE resolvedLabelActions_log(currentAction, labelActions)

\* hasOpenLabelActions: the same text in both handlers
hasOpenLabelActions(labelActions) ==
    [hasOpen |-> \E i \in DOMAIN labelActions : doneIsFalse(labelActions[i]),
     nextAction |-> firstOf({i \in DOMAIN labelActions : doneIsFalse(labelActions[i])})]

-----------------------------------------------------------------------------
(* Prompt parts of the tag-generation flow *)

doTagsPrompt == <<"Generate a list of useful tags that could be added to this article.">>

\* JSON.stringify of [{name, description}]
JSONstringifyLabels(labels) ==
    LET obj(l) == <<"{\"name\":\"">> \o l.name \o <<"\",\"description\":\"">>
                     \o OrElse(l.description, <<>>) \o <<"\"}">>
    IN  <<"[">> \o join([i \in 1..Len(labels) |-> obj(labels[i])], <<",">>) \o <<"]">>

\* src/api/annotate.ts lines 471-496, called with returnJson = true
labelsToPrompt_api(labels, trigger, prePrompt) ==
    LET other(label) == At(split(label.name, ":"), 0) # trigger
    IN  IF labels = <<>> THEN NULL
        ELSE JSONstringifyLabels(SelectSeq(labels, other))

\* src/unnamed/part_000 lines 539-573, called with returnJson = true
labelsToPrompt_log(labels, trigger, prePrompt) ==
    LET other(label) == ~startsWith(label.name, trigger)
        labelsWithoutAnnotationLabel == SelectSeq(labels, other)
    IN  IF labels = <<>> THEN NULL
        ELSE IF labelsWithoutAnnotationLabel = <<>> THEN NULL
        ELSE <<prePrompt, " ">> \o JSONstringifyLabels(labelsWithoutAnnotationLabel)

labelsToPrompt(v, labels, trigger, prePrompt) ==
    IF v = "api"
    THEN labelsToPrompt_api(labels, trigger, prePrompt)
    ELSE labelsToPrompt_log(labels, trigger, prePrompt)

-----------------------------------------------------------------------------
(* Completion results *)

\* every occurrence of one character replaced: String.prototype.replace with
\* a /g pattern of one character
RECURSIVE replaceAll(_, _, _)
replaceAll(s, ch, rep) ==
    IF s = <<>> THEN <<>>
    ELSE (IF Head(s) = ch THEN rep ELSE <<Head(s)>>) \o replaceAll(Tail(s), ch, rep)

generatedResponseOfQuotesFirst(content) ==
    IF content = NULL THEN UNDEFINED
    ELSE replaceAll(replaceAll(trim(content), "\"", <<"\\", "\"">>), "\\", <<"\\", "\\">>)

\* content?.trim().replace(/\\/g, "\\\\").replace(/"/g, '\\"')
generatedResponseOf(content) ==
    IF content = NULL THEN UNDEFINED
    ELSE replaceAll(replaceAll(trim(content), "\\", <<"\\", "\\">>), "\"", <<"\\", "\"">>)

\* the documents the completion service answers with in its JSON mode
JsonNoTags == <<"{\"tags\":[]}">>
JsonTagY == <<"{\"tags\":[{\"name\":\"y\",\"description\":\"\"}]}">>
JsonTagsXY == <<"{\"tags\":[{\"name\":\"x\",\"description\":\"\"},{\"name\":\"y\",\"description\":\"\"}]}">>

JsonEmptyArray == <<"[]">>

\* JSON.parse of a completion: a syntax error for anything but a document;
\* length is the length property of the parsed value, -1 when it has none
JSONparse(text) ==
    CASE text = JsonNoTags -> [ok |-> TRUE, length |-> -1, tags |-> <<>>]
      [] text = JsonTagY ->
            [ok |-> TRUE, length |-> -1, tags |-> <<Label(<<"y">>, <<>>)>>]
      [] text = JsonTagsXY ->
            [ok |-> TRUE, length |-> -1,
             tags |-> <<Label(<<"x">>, <<>>), Label(<<"y">>, <<>>)>>]
      [] text = JsonEmptyArray -> [ok |-> TRUE, length |-> 0, tags |-> <<>>]
      [] OTHER -> [ok |-> FALSE, length |-> -1, tags |-> <<>>]

\* src/api/annotate.ts lines 284-291:
\* content?.trim().split("\n").map(tag => tag.trim()).filter(tag && not on the article)
generatedTags_api(content, article) ==
    LET isNew(tag) == tag # <<>> /\ \A i \in DOMAIN article.labels :
                                        article.labels[i].name # tag
        lines == split(trim(content), "\n")
    IN  IF content = NULL THEN UNDEFINED
        ELSE SelectSeq([i \in 1..Len(lines) |-> trim(lines[i])], isNew)

\* labels.map((label) => label.name)
namesOf(labels) == [i \in 1..Len(labels) |-> labels[i].name]

-----------------------------------------------------------------------------
(* Specification of the escaping of the annotation text *)

ContentChars == {"\\", "\"", "a", " ", "\n"}

InitEscape ==
    /\ Idle
    /\ variant \in {"api", "log"}
    /\ annotateLabel = do
    /\ OPENAI_PROMPT = UNDEFINED
    /\ arg \in [fn : {"escape"}, content : SeqsUpTo(ContentChars, MaxContent) \cup {NULL}]
    /\ ret = [fn |-> "none"]

Escape ==
    /\ arg.fn = "escape"
    /\ ret.fn = "none"
    /\ ret' = [fn |-> "escape", generatedResponse |-> generatedResponseOf(arg.content)]
    /\ UNCHANGED <<variant, annotateLabel, OPENAI_PROMPT, store, inv, arg>>

NextEscape == Escape

SpecEscape == InitEscape /\ [][NextEscape]_vars

\* the text between the first and the last character that is no white space
Trimmed(s) ==
    LET solid == {i \in DOMAIN s : s[i] \notin WhiteSpace}
    IN  IF solid = {} THEN <<>>
        ELSE SubSeq(s, CHOOSE i \in solid : \A j \in solid : i <= j,
                       CHOOSE i \in solid : \A j \in solid : j <= i)

\* every character by itself: a backslash doubled, a quote preceded by one
\* backslash, any other character kept
RECURSIVE Escaped(_)
Escaped(s) ==
    IF s = <<>> THEN <<>>
    ELSE (CASE Head(s) = "\\" -> <<"\\", "\\">>
            [] Head(s) = "\"" -> <<"\\", "\"">>
            [] OTHER -> <<Head(s)>>) \o Escaped(Tail(s))

\* C23: the annotation text passed to the note write-back is the trimmed
\* completion text with every backslash replaced by two backslashes and every
\* double quote by a backslash and the quote, backslashes first, so that the
\* backslash introduced for a quote is never doubled; every other character is
\* unchanged and in its place.
C23_EscapedAnnotation ==
    (ret.fn = "escape" /\ arg.content # NULL) =>
        ret.generatedResponse = Escaped(Trimmed(arg.content))

\* a quote followed by a backslash, with white space around
C23_Witness ==
    /\ ret.fn = "escape"
    /\ arg.content = <<" ", "\"", "\\", " ">>
    /\ ret.generatedResponse = <<"\\", "\"", "\\", "\\">>

-----------------------------------------------------------------------------
(* The handler: one invocation, from the request to the response *)

Call(name, payload) == [call |-> name, payload |-> payload]

NoBody == [valid |-> FALSE, hasLabel |-> FALSE, labels |-> <<>>, pageId |-> UNDEFINED]
NoArticle == Article(UNDEFINED, <<>>, <<>>)

\* no Response object
NoResponse == [status |-> 0, text |-> ""]

Fresh ==
    [pc |-> "start", body |-> NoBody, matchingLabels |-> <<>>,
     article |-> NoArticle, labelActions |-> <<>>, flow |-> "none", current |-> 0,
     articleLabelsPrompt |-> NULL, prompt |-> NULL, content |-> NULL,
     calls |-> <<>>, failed |-> "none", didAction |-> UNDEFINED,
     helperResponse |-> NoResponse,
     status |-> 0, text |-> "", threw |-> FALSE]

\* return new Response(text, { status }); threw: built by the handler's catch;
\* the field failed of an invocation names the external call that threw
Respond(r, status, text, threw) ==
    [r EXCEPT !.pc = "done", !.status = status, !.text = text, !.threw = threw]

\* a handler without the catch: the exception leaves it with no response
CaughtNowhere(r) == [r EXCEPT !.pc = "crashed"]

\* catch (error) { return new Response(`Error processing ...`, { status: 500 }) }
Caught(r) == Respond(r, 500, "Error processing Omnivore webhook", TRUE)

receiveFetchingFirst(r, body, trigger) ==
    LET c == classify(IF body.hasLabel THEN body.labels ELSE <<>>, trigger)
        got == [r EXCEPT !.body = body, !.matchingLabels = c.matchingLabels,
                         !.calls = Append(@, Call("getArticle", body.pageId))]
    IN  IF ~body.valid \/ c.threw \/ ~Truthy(body.pageId) THEN Caught(got)
        ELSE IF c.status # 0 THEN Respond(got, c.status, c.text, FALSE)
        ELSE [got EXCEPT !.pc = "getArticle"]

\* the handler from its first line to the call of getArticle
receive(r, body, trigger) ==
    LET c == classify(IF body.hasLabel THEN body.labels ELSE <<>>, trigger)
        got == [r EXCEPT !.body = body, !.matchingLabels = c.matchingLabels]
    IN  IF ~body.valid THEN Caught([r EXCEPT !.body = body])
        ELSE IF c.threw THEN Caught(got)
        ELSE IF c.status # 0 THEN Respond(got, c.status, c.text, FALSE)
        ELSE IF ~Truthy(body.pageId) THEN Caught(got)
        ELSE [got EXCEPT !.pc = "getArticle",
                         !.calls = Append(@, Call("getArticle", body.pageId))]

\* the handler from the return of getArticle to its next external call
dispatch(v, r, article, trigger, envPrompt) ==
    LET labelActions == getLabelAction(v, r.matchingLabels, article, trigger, envPrompt)
        t == resolvedLabelActions(v, tags, labelActions)
        open == hasOpenLabelActions(labelActions)
        got == [r EXCEPT !.article = article, !.labelActions = labelActions]
    IN  IF t.found
        THEN [got EXCEPT !.flow = "tags", !.current = t.index,
                         !.articleLabelsPrompt =
                              labelsToPrompt(v, article.labels, trigger,
                                             "Existing article tags: "),
                         !.pc = "getAllLabels",
                         !.calls = Append(@, Call("getAllLabels", <<>>))]
        ELSE IF open.hasOpen
        THEN IF open.nextAction = 0
             THEN Respond(got, 400, "No current label action found.", FALSE)
             ELSE LET prompt == arrayToPromptGenerator(
                                    v, labelActions[open.nextAction].prompts)
                  IN  [got EXCEPT !.flow = "annotate", !.current = open.nextAction,
                                  !.prompt = prompt,
                                  !.pc = "completion",
                                  !.calls = Append(@, Call("completion", prompt))]
        ELSE Respond(got, 400, "Unhandled action", FALSE)

askForTagsWritingFirst(v, r, allLabels, trigger) ==
    [r EXCEPT !.pc = "setLabels",
              !.calls = Append(@, Call("setLabels", r.article.labels))]

\* the tag flow from the return of getAllLabelsFromOmnivore to the completion call
askForTags(v, r, allLabels, trigger) ==
    LET allLabelsPrompt == labelsToPrompt(v, allLabels, trigger, "All labels in Omnivore: ")
        prompt == arrayToPromptGenerator(
                      v, <<doTagsPrompt>> \o r.labelActions[r.current].prompts
                             \o <<r.articleLabelsPrompt, allLabelsPrompt>>)
    IN  [r EXCEPT !.prompt = prompt, !.pc = "completion",
                  !.calls = Append(@, Call("completion", prompt))]

\* src/api/annotate.ts lines 284-318: the tag flow after the completion call
tagsResult_api(r, content) ==
    LET generatedTags == generatedTags_api(content, r.article)
        newLabels == namesOf(r.article.labels) \o generatedTags
                        \o <<r.labelActions[r.current].replacedLabel>>
        got == [r EXCEPT !.content = content]
    IN  IF generatedTags = UNDEFINED \/ generatedTags = <<>>
        THEN Respond(got, 200, "No new tags generated.", FALSE)
        ELSE [got EXCEPT !.pc = "setLabels",
                         !.calls = Append(@, Call("setLabels", newLabels))]

tagsResult_logOnlyGenerated(r, content) ==
    LET generatedTags == JSONparse(content)
        got == [r EXCEPT !.content = content]
    IN  IF ~Truthy(content)
        THEN Respond(got, 500, "No response from OpenAI.", FALSE)
        ELSE IF ~generatedTags.ok THEN Caught(got)
        ELSE IF generatedTags.length = 0
        THEN Respond(got, 200, "No new tags generated.", FALSE)
        ELSE [got EXCEPT !.pc = "setLabels",
                         !.calls = Append(@, Call("setLabels", generatedTags.tags))]

tagsResult_logAllReplaced(r, content) ==
    LET generatedTags == JSONparse(content)
        got == [r EXCEPT !.content = content]
    IN  IF ~Truthy(content)
        THEN Respond(got, 500, "No response from OpenAI.", FALSE)
        ELSE IF ~generatedTags.ok THEN Caught(got)
        ELSE IF generatedTags.length = 0
        THEN Respond(got, 200, "No new tags generated.", FALSE)
        ELSE [got EXCEPT !.pc = "setLabels",
                         !.calls = Append(@, Call("setLabels",
                              r.article.labels \o generatedTags.tags
                                \o [i \in 1..Len(r.labelActions) |->
                                       Label(r.labelActions[i].replacedLabel, UNDEFINED)]))]

\* src/unnamed/part_000 lines 294-327: generatedTags is the parsed document,
\* an object {tags: [...]}, whose length is undefined and so never 0; the
\* labels sent are label objects, the last one {name: replacedLabel}
tagsResult_log(r, content) ==
    LET generatedTags == JSONparse(content)
        newLabels == r.article.labels \o generatedTags.tags
                        \o <<Label(r.labelActions[r.current].replacedLabel, UNDEFINED)>>
        got == [r EXCEPT !.content = content]
    IN  IF ~Truthy(content)
        THEN Respond(got, 500, "No response from OpenAI.", FALSE)
        ELSE IF ~generatedTags.ok THEN Caught(got)
        ELSE IF generatedTags.length = 0
        THEN Respond(got, 200, "No new tags generated.", FALSE)
        ELSE [got EXCEPT !.pc = "setLabels",
                         !.calls = Append(@, Call("setLabels", newLabels))]

shortIdOfWhole(id) == id

\* id.substring(0, 8)
shortIdOf(id) == SubSeq(id, 1, 8)

\* the annotation flow after the completion call, the same text in both
\* handlers, up to the mutation applyAnnotationToOmnivoreArticle sends
annotationResult(r, content, uuid) ==
    LET generatedResponse == generatedResponseOf(content)
        got == [r EXCEPT !.content = content]
    IN  IF ~Truthy(generatedResponse)
        THEN Respond(got, 500, "No generated response from OpenAI.", FALSE)
        ELSE IF r.article.existingNote.present
        THEN [got EXCEPT !.pc = "writeNote",
                         !.calls = Append(@, Call("updateHighlight",
                              [highlightId |-> r.article.existingNote.id,
                               annotation |-> generatedResponse]))]
        ELSE [got EXCEPT !.pc = "writeNote",
                         !.calls = Append(@, Call("createHighlight",
                              [type |-> "NOTE", id |-> uuid,
                               shortId |-> shortIdOf(uuid),
                               articleId |-> r.article.id,
                               annotation |-> generatedResponse]))]

\* the Response a note helper returns: 404 from the update helper called
\* without a note, 500 from its catch, status 200 by default
helperResponseOf(call, existingNote, threw) ==
    IF call = "updateHighlight" /\ ~existingNote.present
    THEN [status |-> 404, text |-> "No existing note found in Omnivore article"]
    ELSE IF threw
    THEN [status |-> 500, text |-> "Error adding annotation to Omnivore article"]
    ELSE IF call = "updateHighlight"
    THEN [status |-> 200, text |-> "Article annotation updated."]
    ELSE [status |-> 200, text |-> "Article annotation added."]

respondAfterNoteForwarding(r, helperResponse) ==
    Respond([r EXCEPT !.helperResponse = helperResponse],
            helperResponse.status, helperResponse.text, FALSE)

\* await applyAnnotationToOmnivoreArticle(...): the Response the helper
\* returns is dropped, the handler builds its own
respondAfterNote(r, helperResponse) ==
    Respond([r EXCEPT !.helperResponse = helperResponse],
            200, "Annotation applied to the article.", FALSE)

-----------------------------------------------------------------------------
(* The legacy handler: src/unnamed/part_000 lines 994-1225 *)

doTagsPrompt_legacy ==
    <<"Generate a list of useful tags that could be added to this article. Only provide the list of tags, one per line. ">>

NoBody_legacy ==
    [valid |-> FALSE, action |-> UNDEFINED, labelPageId |-> UNDEFINED,
     pageId |-> UNDEFINED]

\* src/unnamed/part_000 lines 1234-1250
labelsToPrompt_legacy(labels, trigger, prePrompt) ==
    LET other(label) == At(split(label.name, ":"), 0) # trigger
        labelString == join(namesOf(SelectSeq(labels, other)), <<",", " ">>)
    IN  IF labels = <<>> THEN NULL
        ELSE <<prePrompt, " ">> \o labelString

\* articleLabels.find(({ name }) => name.split(":")[0] === annotateLabel)?.description
promptFromLabelOf(articleLabels, trigger) ==
    LET hits == {i \in DOMAIN articleLabels :
                    At(split(articleLabels[i].name, ":"), 0) = trigger}
    IN  IF hits = {} THEN UNDEFINED ELSE articleLabels[firstOf(hits)].description

\* the legacy handler from its first line to the fetch of the article
receive_legacy(r, body) ==
    LET articleId == OrElse(body.labelPageId, body.pageId)
        got == [r EXCEPT !.body = body]
    IN  IF ~body.valid THEN Caught(got)
        ELSE IF ~IsString(body.action) THEN Caught(got)
        ELSE IF ~startsWith(body.action, do)
        THEN Respond(got, 200, "Not a 'do:' action, ignoring.", FALSE)
        ELSE IF ~Truthy(articleId) THEN Caught(got)
        ELSE [got EXCEPT !.didAction = replace(body.action, do \o <<":">>, did),
                         !.pc = "getArticle",
                         !.calls = Append(@, Call("getArticle", articleId))]

\* the legacy handler from the response of the article fetch to its next
\* external call
dispatch_legacy(r, article, trigger, envPrompt) ==
    LET promptFromLabelWithFallback ==
            promptWithFallbackOf(promptFromLabelOf(article.labels, trigger), envPrompt)
        body == promptBodyArray(promptFromLabelWithFallback, article)
        got == [r EXCEPT !.article = article]
    IN  IF r.body.action = do_tags
        THEN [got EXCEPT !.flow = "tags",
                         !.articleLabelsPrompt =
                              labelsToPrompt_legacy(article.labels, trigger,
                                                    "Existing article tags: "),
                         !.pc = "getAllLabels",
                         !.calls = Append(@, Call("getAllLabels", <<>>))]
        ELSE IF startsWith(r.body.action, do \o <<":">>)
        THEN LET prompt == arrayToPromptGenerator_legacy(body)
             IN  [got EXCEPT !.flow = "annotate", !.prompt = prompt,
                             !.pc = "completion",
                             !.calls = Append(@, Call("completion", prompt))]
        ELSE Respond(got, 400, "Unhandled action", FALSE)

\* the legacy tag flow from the return of getAllLabelsFromOmnivore to the
\* completion call
askForTags_legacy(r, allLabels, trigger, envPrompt) ==
    LET promptFromLabelWithFallback ==
            promptWithFallbackOf(promptFromLabelOf(r.article.labels, trigger), envPrompt)
        allLabelsPrompt == labelsToPrompt_legacy(allLabels, trigger, "All labels in Omnivore: ")
        prompt == arrayToPromptGenerator_legacy(
                      <<doTagsPrompt_legacy>>
                        \o promptBodyArray(promptFromLabelWithFallback, r.article)
                        \o <<r.articleLabelsPrompt, allLabelsPrompt>>)
    IN  [r EXCEPT !.prompt = prompt, !.pc = "completion",
                  !.calls = Append(@, Call("completion", prompt))]

\* src/unnamed/part_000 lines 1148-1183: the list labels (names, generated
\* tags, didAction) is built and never used, generatedTags alone is sent
tagsResult_legacy(r, content) ==
    LET generatedTags == generatedTags_api(content, r.article)
        labels == namesOf(r.article.labels) \o generatedTags \o <<r.didAction>>
        got == [r EXCEPT !.content = content]
    IN  IF generatedTags = UNDEFINED \/ generatedTags = <<>>
        THEN Respond(got, 200, "No new tags generated.", FALSE)
        ELSE [got EXCEPT !.pc = "setLabels",
                         !.calls = Append(@, Call("setLabels", generatedTags))]

-----------------------------------------------------------------------------
(* The step after the completion call, by handler *)

completionResult(v, r, content, uuid) ==
    IF r.flow = "tags"
    THEN CASE v = "api" -> tagsResult_api(r, content)
           [] v = "log" -> tagsResult_log(r, content)
           [] v = "legacy" -> tagsResult_legacy(r, content)
    ELSE annotationResult(r, content, uuid)

-----------------------------------------------------------------------------
(* Omnivore's side of the write-backs *)

\* the label names of a setLabels call: annotate.ts sends names, part_000
\* sends label objects
sentNames(v, newLabels) == IF v = "log" THEN namesOf(newLabels) ELSE newLabels

\* setLabels replaces the label set of the article by the names sent
RECURSIVE dedup(_)
dedup(names) ==
    IF names = <<>> THEN <<>>
    ELSE LET other(n) == n # Head(names)
         IN  <<Head(names)>> \o dedup(SelectSeq(Tail(names), other))

labelsAfterSetMerging(old, names) ==
    LET kept == dedup(namesOf(old) \o names)
    IN  [i \in 1..Len(kept) |->
            Label(kept[i], OrElse(getLabelDescription(kept[i], old), <<>>))]

labelsAfterSet(old, names) ==
    LET kept == dedup(names)
    IN  [i \in 1..Len(kept) |->
            Label(kept[i], OrElse(getLabelDescription(kept[i], old), <<>>))]

\* uuidv4() returns an identifier no highlight of the article carries
FreshUuids(highlights) == {u \in Uuids : \A i \in DOMAIN highlights : highlights[i].id # u}

\* the identifiers uuidv4() has returned to the invocations so far
IssuedUuids(i) ==
    UNION {{i[p].calls[k].payload.id :
                k \in {j \in DOMAIN i[p].calls : i[p].calls[j].call = "createHighlight"}} :
            p \in DOMAIN i}

highlightsAfter(old, call) ==
    IF call.call = "createHighlight"
    THEN Append(old, Note(call.payload.id))
    ELSE old

-----------------------------------------------------------------------------
(* Actions *)

Last(a) == a[Len(a)]

EventNames == {do, do_tags, do_sum, doing}
EventEntries == {NamedEntry(n) : n \in EventNames} \cup {NullEntry, NullNameEntry}
Bodies ==
    {NoBody, [NoBody EXCEPT !.valid = TRUE]}
        \cup [valid : {TRUE}, hasLabel : {TRUE},
              labels : SeqsUpTo(EventEntries, MaxEventLabels),
              pageId : {<<"p">>, <<>>, UNDEFINED}]

Contents == {NULL, <<>>, <<"y">>, <<"x", "\n", "y">>, JsonNoTags, JsonTagY, JsonEmptyArray}
WorkspaceLabels == {<<>>, <<Label(<<"x">>, <<>>), Label(do_tags, <<"D">>)>>}

LegacyActions == {UNDEFINED, do, do_tags, do_sum, doing, <<"x">>}
Bodies_legacy ==
    {NoBody_legacy}
        \cup [valid : {TRUE}, action : LegacyActions,
              labelPageId : {<<"p">>, UNDEFINED}, pageId : {<<"q">>, UNDEFINED}]

Receive(p) ==
    /\ inv[p].pc = "start"
    /\ \/ /\ variant # "legacy"
          /\ \E body \in Bodies :
                inv' = [inv EXCEPT ![p] = receive(@, body, annotateLabel)]
       \/ /\ variant = "legacy"
          /\ \E body \in Bodies_legacy :
                inv' = [inv EXCEPT ![p] = receive_legacy(@, body)]
    /\ UNCHANGED <<variant, annotateLabel, OPENAI_PROMPT, store, arg, ret>>

GetArticleReturns(p) ==
    /\ inv[p].pc = "getArticle"
    /\ inv' = [inv EXCEPT ![p] =
                  IF variant = "legacy"
                  THEN dispatch_legacy(@, Article(Last(@.calls).payload, store.labels,
                                                  store.highlights),
                                       annotateLabel, OPENAI_PROMPT)
                  ELSE dispatch(variant, @,
                                Article(@.body.pageId, store.labels, store.highlights),
                                annotateLabel, OPENAI_PROMPT)]
    /\ UNCHANGED <<variant, annotateLabel, OPENAI_PROMPT, store, arg, ret>>

GetAllLabelsReturns(p) ==
    /\ inv[p].pc = "getAllLabels"
    /\ \E allLabels \in WorkspaceLabels :
          inv' = [inv EXCEPT ![p] =
                    IF variant = "legacy"
                    THEN askForTags_legacy(@, allLabels, annotateLabel, OPENAI_PROMPT)
                    ELSE askForTags(variant, @, allLabels, annotateLabel)]
    /\ UNCHANGED <<variant, annotateLabel, OPENAI_PROMPT, store, arg, ret>>

CompletionReturns(p) ==
    /\ inv[p].pc = "completion"
    /\ \E content \in Contents,
          uuid \in FreshUuids(store.highlights) \ IssuedUuids(inv) :
          inv' = [inv EXCEPT ![p] = completionResult(variant, @, content, uuid)]
    /\ UNCHANGED <<variant, annotateLabel, OPENAI_PROMPT, store, arg, ret>>

\* getArticle, getAllLabelsFromOmnivore, the completion call and
\* addLabelsToOmnivoreArticle throw into the handler's catch
CallThrows(p) ==
    /\ inv[p].pc \in {"getArticle", "getAllLabels", "completion", "setLabels"}
    /\ inv' = [inv EXCEPT ![p] = Caught([@ EXCEPT !.failed = Last(inv[p].calls).call])]
    /\ UNCHANGED <<variant, annotateLabel, OPENAI_PROMPT, store, arg, ret>>

SetLabelsReturns(p) ==
    /\ inv[p].pc = "setLabels"
    /\ store' = [store EXCEPT !.labels =
                      labelsAfterSet(@, sentNames(variant, Last(inv[p].calls).payload))]
    /\ inv' = [inv EXCEPT ![p] =
                  Respond(@, 200, "New tags added to the article and action updated to did: action.",
                          FALSE)]
    /\ UNCHANGED <<variant, annotateLabel, OPENAI_PROMPT, arg, ret>>

WriteNoteReturns(p) ==
    /\ inv[p].pc = "writeNote"
    /\ store' = [store EXCEPT !.highlights = highlightsAfter(@, Last(inv[p].calls))]
    /\ inv' = [inv EXCEPT ![p] =
                  respondAfterNote(@, helperResponseOf(Last(inv[p].calls).call,
                                                      inv[p].article.existingNote, FALSE))]
    /\ UNCHANGED <<variant, annotateLabel, OPENAI_PROMPT, arg, ret>>

\* the fetch of the note mutation throws: the helper's own catch turns it into
\* a Response the handler never looks at
WriteNoteThrows(p) ==
    /\ inv[p].pc = "writeNote"
    /\ inv' = [inv EXCEPT ![p] =
                  respondAfterNote([@ EXCEPT !.failed = Last(inv[p].calls).call],
                                   helperResponseOf(Last(inv[p].calls).call,
                                                    inv[p].article.existingNote, TRUE))]
    /\ UNCHANGED <<variant, annotateLabel, OPENAI_PROMPT, store, arg, ret>>

StoreLabels ==
    {<<>>,
     <<Label(<<"x">>, <<>>)>>,
     <<Label(do_tags, <<"D">>)>>,
     <<Label(<<"x">>, <<>>), Label(do_sum, NULL)>>}
StoreHighlights == {<<>>, <<Highlight(Uuid2)>>, <<Highlight(Uuid2), Note(Uuid1)>>}

Init ==
    /\ variant \in {"api", "log"}
    /\ annotateLabel = do
    /\ OPENAI_PROMPT \in {UNDEFINED, <<"E">>}
    /\ store \in [labels : StoreLabels, highlights : StoreHighlights]
    /\ inv = [p \in {1} |-> Fresh]
    /\ arg = [fn |-> "none"]
    /\ ret = [fn |-> "none"]

Next ==
    \/ \E p \in DOMAIN inv : Receive(p)
    \/ \E p \in DOMAIN inv : GetArticleReturns(p)
    \/ \E p \in DOMAIN inv : GetAllLabelsReturns(p)
    \/ \E p \in DOMAIN inv : CompletionReturns(p)
    \/ \E p \in DOMAIN inv : CallThrows(p)
    \/ \E p \in DOMAIN inv : SetLabelsReturns(p)
    \/ \E p \in DOMAIN inv : WriteNoteReturns(p)
    \/ \E p \in DOMAIN inv : WriteNoteThrows(p)

Spec == Init /\ [][Next]_vars

\* the steps of an invocation after its awaits: the pending call returns or
\* throws and the handler runs on to its next await or to its response
Resume ==
    \E p \in DOMAIN inv :
        \/ GetArticleReturns(p)
        \/ GetAllLabelsReturns(p)
        \/ CompletionReturns(p)
        \/ CallThrows(p)
        \/ SetLabelsReturns(p)
        \/ WriteNoteReturns(p)
        \/ WriteNoteThrows(p)

\* an invocation is suspended at an await: exactly the states where Resume is
\* enabled
Pending ==
    \E p \in DOMAIN inv :
        inv[p].pc \in {"getArticle", "getAllLabels", "completion", "setLabels", "writeNote"}

\* every external call eventually returns or throws, and the runtime then
\* resumes the handler; the delivery of the webhook itself is not forced.
\* This is weak fairness of Resume, WF_vars(Resume), written with Pending for
\* ENABLED <<Resume>>_vars.
SpecFair == Init /\ [][Next]_vars /\ ([]<>(~Pending) \/ []<><<Resume>>_vars)

\* The invocation has answered and the article is labelled again: Omnivore
\* delivers the next event to a new invocation, which starts after the
\* previous one has returned and sees what that one wrote.
NextDelivery(p) ==
    /\ inv[p].pc = "done"
    /\ inv' = [inv EXCEPT ![p] = Fresh]
    /\ UNCHANGED <<variant, annotateLabel, OPENAI_PROMPT, store, arg, ret>>

NextSeq ==
    \/ \E p \in DOMAIN inv : Receive(p)
    \/ \E p \in DOMAIN inv : GetArticleReturns(p)
    \/ \E p \in DOMAIN inv : GetAllLabelsReturns(p)
    \/ \E p \in DOMAIN inv : CompletionReturns(p)
    \/ \E p \in DOMAIN inv : CallThrows(p)
    \/ \E p \in DOMAIN inv : SetLabelsReturns(p)
    \/ \E p \in DOMAIN inv : WriteNoteReturns(p)
    \/ \E p \in DOMAIN inv : WriteNoteThrows(p)
    \/ \E p \in DOMAIN inv : NextDelivery(p)

\* one article, a sequence of invocations that do not overlap
SpecSeq == Init /\ [][NextSeq]_vars

\* the events of overlapping deliveries: well-formed events for article "p"
OverlapBodies ==
    [valid : {TRUE}, hasLabel : {TRUE},
     labels : {<<NamedEntry(do_sum)>>, <<NamedEntry(do_tags)>>,
               <<NamedEntry(do_sum), NamedEntry(do_tags)>>},
     pageId : {<<"p">>}]

ReceiveOverlapping(p) ==
    /\ inv[p].pc = "start"
    /\ \E body \in OverlapBodies :
          inv' = [inv EXCEPT ![p] = receive(@, body, annotateLabel)]
    /\ UNCHANGED <<variant, annotateLabel, OPENAI_PROMPT, store, arg, ret>>

\* two invocations run for the same article; nothing orders their steps
InitPar ==
    /\ variant \in {"api", "log"}
    /\ annotateLabel = do
    /\ OPENAI_PROMPT = UNDEFINED
    /\ store \in [labels : {<<Label(<<"x">>, <<>>)>>, <<Label(do_tags, <<"D">>)>>},
                  highlights : {<<>>, <<Highlight(Uuid2), Note(Uuid1)>>}]
    /\ inv = [p \in {1, 2} |-> Fresh]
    /\ arg = [fn |-> "none"]
    /\ ret = [fn |-> "none"]

NextPar ==
    \/ \E p \in DOMAIN inv : ReceiveOverlapping(p)
    \/ \E p \in DOMAIN inv : GetArticleReturns(p)
    \/ \E p \in DOMAIN inv : GetAllLabelsReturns(p)
    \/ \E p \in DOMAIN inv : CompletionReturns(p)
    \/ \E p \in DOMAIN inv : CallThrows(p)
    \/ \E p \in DOMAIN inv : SetLabelsReturns(p)
    \/ \E p \in DOMAIN inv : WriteNoteReturns(p)
    \/ \E p \in DOMAIN inv : WriteNoteThrows(p)

SpecPar == InitPar /\ [][NextPar]_vars

\* the three handlers of the repository, the legacy one included
InitAll ==
    /\ variant \in {"api", "log", "legacy"}
    /\ annotateLabel = do
    /\ OPENAI_PROMPT \in {UNDEFINED, <<"E">>}
    /\ store \in [labels : StoreLabels, highlights : StoreHighlights]
    /\ inv = [p \in {1} |-> IF variant = "legacy"
                             THEN [Fresh EXCEPT !.body = NoBody_legacy]
                             ELSE Fresh]
    /\ arg = [fn |-> "none"]
    /\ ret = [fn |-> "none"]

SpecAll == InitAll /\ [][Next]_vars

-----------------------------------------------------------------------------
(* Properties of the handler *)

\* the invocation has parsed its event
Parsed(r) == r.pc # "start" /\ r.body.valid

\* the invocation has resolved its label actions (getArticle has returned)
Resolved(r) == r.labelActions # <<>>

\* the positions of the resolved actions whose operation is "tags"
TagsAt(r) ==
    {i \in DOMAIN r.labelActions : r.labelActions[i].action = <<"t", "a", "g", "s">>}

NoteCalls == {"createHighlight", "updateHighlight"}

CallsOf(r, names) == {k \in DOMAIN r.calls : r.calls[k].call \in names}

\* C2: when no label of the event matches the trigger, also when the event
\* carries no well-formed label entry at all, the handler answers 400 as a
\* normal return value, never through its catch (never 500).
C2_NoMatchIs400 ==
    \A p \in DOMAIN inv :
        (Parsed(inv[p]) /\ QualifyingAt(inv[p].body.labels, annotateLabel) = {}) =>
            /\ inv[p].pc = "done"
            /\ inv[p].status = 400
            /\ ~inv[p].threw

\* C3: in the handler of src/api/annotate.ts, whenever the resolved action
\* list holds an action whose operation is "tags", at any position, the
\* handler takes the tag-generation branch with the first such action and runs
\* no annotation flow.
C3_ApiTagsBranch ==
    \A p \in DOMAIN inv :
        (variant = "api" /\ Resolved(inv[p]) /\ TagsAt(inv[p]) # {}) =>
            /\ inv[p].flow = "tags"
            /\ \A i \in TagsAt(inv[p]) : inv[p].current <= i
            /\ CallsOf(inv[p], NoteCalls) = {}

\* C4: in the logging handler (src/unnamed/part_000 lines 101-400), whenever
\* the resolved action list holds an action whose operation is "tags", at any
\* position, the handler takes the tag-generation branch with the first such
\* action in list order and runs no annotation flow for any other action.
C4_LogTagsBranch ==
    \A p \in DOMAIN inv :
        (variant = "log" /\ Resolved(inv[p]) /\ TagsAt(inv[p]) # {}) =>
            /\ inv[p].flow = "tags"
            /\ inv[p].current \in TagsAt(inv[p])
            /\ \A i \in TagsAt(inv[p]) : inv[p].current <= i
            /\ CallsOf(inv[p], NoteCalls) = {}
            /\ \A k \in CallsOf(inv[p], {"completion"}) :
                  startsWith(inv[p].calls[k].payload, <<"-", " ">> \o doTagsPrompt)

\* the tags action stands second, behind another operation, and was run
C4_Witness ==
    /\ variant = "log"
    /\ inv[1].matchingLabels = <<do_sum, do_tags>>
    /\ inv[1].flow = "tags"
    /\ inv[1].current = 2
    /\ inv[1].pc = "done"
    /\ inv[1].status = 200
    /\ CallsOf(inv[1], {"setLabels"}) # {}

\* C5: in both label-resolving handlers, when the resolved action list is not
\* empty and no action has operation "tags", the handler runs the annotation
\* flow on the first action of the list; it never answers "Unhandled action".
C5_AnnotationOtherwise ==
    \A p \in DOMAIN inv :
        (Resolved(inv[p]) /\ TagsAt(inv[p]) = {}) =>
            /\ inv[p].flow = "annotate"
            /\ inv[p].current = 1
            /\ inv[p].text # "Unhandled action"
            /\ CallsOf(inv[p], {"completion"}) # {}

\* the bullet lines of a prompt
LinesOf(prompt) == split(prompt, "\n")

\* the fragments of the chosen action that the prompt has to list, in order
ExpectedFragments(r) ==
    LET a == r.labelActions[r.current]
    IN  << <<"-", " ">> \o a.prompts[1],
           <<"-", " ", "Article title: ">> \o r.article.title,
           <<"-", " ", "Article content: ">> \o r.article.content >>
        \o (IF r.article.existingNote.present
            THEN << <<"-", " ", "Existing note: ", "[object Object]">> >>
            ELSE <<>>)

\* sub occurs in a as a run of consecutive elements
OccursIn(sub, a) ==
    \E k \in 0..(Len(a) - Len(sub)) : SubSeq(a, k + 1, k + Len(sub)) = sub

\* C10: every prompt sent to the completion service lists the chosen action's
\* fragments in the order template, title, content, existing note, one bullet
\* line each; without an existing note the note fragment is absent and the
\* prompt holds no empty bullet line. In both handlers and both flows.
C10_PromptFragments ==
    \A p \in DOMAIN inv :
        \A k \in CallsOf(inv[p], {"completion"}) :
            LET lines == LinesOf(inv[p].calls[k].payload)
            IN  /\ OccursIn(ExpectedFragments(inv[p]), lines)
                /\ \A i \in DOMAIN lines : trim(lines[i]) # <<"-">>

\* the elements of a sequence
Range(a) == {a[i] : i \in DOMAIN a}

\* the tag names a completion text carries: one per line for the handler of
\* annotate.ts, the names of the "tags" array for the logging handler
TagNamesIn(content) ==
    CASE content = <<"y">> -> {<<"y">>}
      [] content = <<"x", "\n", "y">> -> {<<"x">>, <<"y">>}
      [] content = JsonTagY -> {<<"y">>}
      [] content = JsonTagsXY -> {<<"x">>, <<"y">>}
      [] OTHER -> {}

\* C11: whenever the tag-generation flow performs a write-back, the set of
\* label names sent to setLabels equals the names of the labels fetched on the
\* article, united with the names of the generated tags and the replacement
\* label of the chosen action (existing {x}, generated {y}, action do:tags:
\* {x, y, did:tags}).
C11_WriteBackSet ==
    \A p \in DOMAIN inv :
        \A k \in CallsOf(inv[p], {"setLabels"}) :
            LET r == inv[p]
                sent == Range(sentNames(variant, r.calls[k].payload))
            IN  /\ r.flow = "tags"
                /\ sent = {l.name : l \in Range(r.article.labels)}
                            \cup TagNamesIn(r.content)
                            \cup {LeadingReplaced(r.labelActions[r.current].label,
                                                  annotateLabel)}

C11_Witness ==
    /\ inv[1].pc = "done" /\ inv[1].status = 200
    /\ inv[1].flow = "tags"
    /\ namesOf(inv[1].article.labels) = << <<"x">> >>
    /\ inv[1].content = JsonTagY
    /\ \E k \in CallsOf(inv[1], {"setLabels"}) :
          Range(sentNames(variant, inv[1].calls[k].payload))
              = {<<"x">>, <<"y">>, did_tags}

\* the completion call of the invocation has returned (it did not throw)
CompletionReturned(r) ==
    /\ CallsOf(r, {"completion"}) # {}
    /\ r.pc \in {"setLabels", "writeNote", "done"}
    /\ ~(r.threw /\ Last(r.calls).call = "completion" /\ r.content = NULL)

\* C12: in the tag-generation flow, when the completion result is absent or
\* its parsed tags array is empty, the handler answers 200 "No new tags
\* generated." and issues no setLabels write.
C12_NoTagsIs200 ==
    \A p \in DOMAIN inv :
        (/\ inv[p].flow = "tags"
         /\ CompletionReturned(inv[p])
         /\ inv[p].content \in {NULL, <<>>, JsonNoTags}) =>
            /\ inv[p].pc = "done"
            /\ inv[p].status = 200
            /\ inv[p].text = "No new tags generated."
            /\ CallsOf(inv[p], {"setLabels"}) = {}

\* C13: in the tag-generation flow and in the annotation flow, when the
\* completion call returns null or an empty string as content, the handler
\* returns a response whose status is not 5xx and does not throw.
C13_EmptyCompletionNot5xx ==
    \A p \in DOMAIN inv :
        (/\ inv[p].flow \in {"tags", "annotate"}
         /\ CompletionReturned(inv[p])
         /\ inv[p].content \in {NULL, <<>>}) =>
            /\ inv[p].pc = "done"
            /\ inv[p].status \notin 500..599
            /\ ~inv[p].threw

\* the NOTE highlights of a list of highlights
NotesIn(highlights) == {h \in Range(highlights) : h.type = "NOTE"}

\* the annotation flow has a text to write: the completion returned content
\* that is not empty once trimmed
HasAnnotation(r) ==
    /\ r.flow = "annotate"
    /\ CompletionReturned(r)
    /\ r.content # NULL
    /\ \E i \in DOMAIN r.content : r.content[i] \notin WhiteSpace

\* C14: in the annotation flow, if the fetched article has a highlight of type
\* NOTE the handler issues exactly one update-highlight mutation keyed by that
\* note's id and no create-highlight mutation; if it has none, it issues
\* exactly one create-highlight mutation of type NOTE with a fresh id whose
\* shortId is the first 8 characters of that id, and no update mutation.
C14_UpdateOrCreateNote ==
    \A p \in DOMAIN inv :
        LET r == inv[p]
            notes == NotesIn(r.article.highlights)
            updates == CallsOf(r, {"updateHighlight"})
            creates == CallsOf(r, {"createHighlight"})
        IN  /\ Cardinality(updates) + Cardinality(creates) <= 1
            /\ (HasAnnotation(r) /\ notes # {}) =>
                    /\ Cardinality(updates) = 1 /\ creates = {}
            /\ (HasAnnotation(r) /\ notes = {}) =>
                    /\ Cardinality(creates) = 1 /\ updates = {}
            /\ \A k \in updates :
                    /\ HasAnnotation(r)
                    /\ \E h \in notes : r.calls[k].payload.highlightId = h.id
            /\ \A k \in creates :
                    LET input == r.calls[k].payload
                    IN  /\ HasAnnotation(r) /\ notes = {}
                        /\ input.type = "NOTE"
                        /\ \A h \in Range(r.article.highlights) : h.id # input.id
                        /\ Len(input.shortId) = 8
                        /\ \A j \in 1..8 : input.shortId[j] = input.id[j]

\* an article with a highlight but no note: the note is created
C14_Witness ==
    /\ inv[1].pc = "done" /\ inv[1].status = 200
    /\ inv[1].flow = "annotate"
    /\ inv[1].article.highlights = <<Highlight(Uuid2)>>
    /\ \E k \in CallsOf(inv[1], {"createHighlight"}) :
          /\ inv[1].calls[k].payload.id = Uuid3
          /\ inv[1].calls[k].payload.shortId = <<"0", "0", "7", "a", "c", "c", "1", "e">>
    /\ store.highlights = <<Highlight(Uuid2), Note(Uuid3)>>

\* every entry of the event that carries a name carries a string
WellFormed(labels) == \A i \in DOMAIN labels : labels[i].hasName => IsString(labels[i].name)

\* C15: when the event has at least one label matching the trigger but
\* carries no article id (label.pageId missing or empty), the handler answers
\* 400 and makes no external call.
C15_MissingArticleIdIs400 ==
    \A p \in DOMAIN inv :
        (/\ Parsed(inv[p])
         /\ WellFormed(inv[p].body.labels)
         /\ QualifyingAt(inv[p].body.labels, annotateLabel) # {}
         /\ inv[p].body.pageId \in {UNDEFINED, <<>>}) =>
            /\ inv[p].pc = "done"
            /\ inv[p].status = 400
            /\ inv[p].calls = <<>>

\* C16: if an external call of an invocation (article fetch, workspace-label
\* fetch, completion, setLabels, note create, note update) fails by throwing,
\* the response of the invocation has status 500 and no later external call is
\* made; the handler never answers 200 after a failed write-back.
C16_FailedCallIs500 ==
    \A p \in DOMAIN inv :
        inv[p].failed # "none" =>
            /\ inv[p].pc = "done"
            /\ inv[p].status = 500
            /\ Last(inv[p].calls).call = inv[p].failed

WriteBacks == {"setLabels", "createHighlight", "updateHighlight"}

\* C17: in every invocation, whatever the number of matching labels, at most
\* one action is run: at most one completion call, at most one write-back
\* mutation (one setLabels or one note create/update, never both), no external
\* call repeated; the other actions are left untouched: a write-back neither
\* removes their labels from the article nor adds their replacement labels.
C17_AtMostOneAction ==
    \A p \in DOMAIN inv :
        LET r == inv[p]
            others == {j \in DOMAIN r.labelActions :
                          r.labelActions[j].label # r.labelActions[r.current].label}
        IN  /\ Cardinality(CallsOf(r, {"completion"})) <= 1
            /\ Cardinality(CallsOf(r, WriteBacks)) <= 1
            /\ \A k, l \in DOMAIN r.calls : r.calls[k].call = r.calls[l].call => k = l
            /\ \A k \in CallsOf(r, {"setLabels"}) :
                  LET sent == Range(sentNames(variant, r.calls[k].payload))
                      onArticle == {l.name : l \in Range(r.article.labels)}
                  IN  \A j \in others :
                        /\ r.labelActions[j].label \in onArticle =>
                                r.labelActions[j].label \in sent
                        /\ LeadingReplaced(r.labelActions[j].label, annotateLabel) \in sent =>
                                LeadingReplaced(r.labelActions[j].label, annotateLabel)
                                    \in onArticle \cup TagNamesIn(r.content)

\* two matching labels, one action run: the tags action is written back and
\* do:sum stays on the article
C17_Witness ==
    /\ inv[1].pc = "done" /\ inv[1].status = 200
    /\ inv[1].matchingLabels = <<do_sum, do_tags>>
    /\ Cardinality(CallsOf(inv[1], {"completion"})) = 1
    /\ Cardinality(CallsOf(inv[1], WriteBacks)) = 1
    /\ do_sum \in Range(namesOf(store.labels))
    /\ did_tags \in Range(namesOf(store.labels))
    /\ <<"d", "i", "d", ":", "s", "u", "m">> \notin Range(namesOf(store.labels))

\* C18: every response returned by any handler variant, on every path, has
\* status 200, 400 or 500; a Response built inside a helper function is never
\* the one the caller receives.
C18_StatusesAre200_400_500 ==
    \A p \in DOMAIN inv :
        /\ inv[p].pc = "done" => inv[p].status \in {200, 400, 500}
        /\ inv[p].pc # "done" => inv[p].status = 0
        /\ inv[p].helperResponse # NoResponse =>
                /\ inv[p].pc = "done"
                /\ inv[p].text # inv[p].helperResponse.text

\* the legacy handler answers 200 after its note helper built a 500 Response
C18_Witness ==
    /\ variant = "legacy"
    /\ inv[1].pc = "done"
    /\ inv[1].helperResponse.status = 500
    /\ inv[1].status = 200

\* C19: whenever an invocation completes an operation successfully (it
\* performed its write-back and answered 200), the replacement label did:x of
\* the operation do:x it ran has been written to the article's label set, in
\* the tag-generation flow and in the annotation flow alike.
C19_DidLabelWritten ==
    \A p \in DOMAIN inv :
        (/\ inv[p].pc = "done" /\ inv[p].status = 200
         /\ inv[p].failed = "none"
         /\ CallsOf(inv[p], WriteBacks) # {}
         /\ inv[p].labelActions[inv[p].current].label # annotateLabel) =>
            LeadingReplaced(inv[p].labelActions[inv[p].current].label, annotateLabel)
                \in {l.name : l \in Range(store.labels)}

\* C20: for any sequence of non-overlapping annotation invocations on one
\* article, the article has at most one NOTE highlight after every
\* invocation: the first invocation creates the note if none exists, every
\* later invocation updates that same note instead of creating another.
C20_AtMostOneNote ==
    /\ Cardinality(NotesIn(store.highlights)) <= 1
    /\ [][ /\ Cardinality(NotesIn(store'.highlights)) <= 1
           /\ NotesIn(store.highlights) # {} =>
                  NotesIn(store'.highlights) = NotesIn(store.highlights)
           /\ \A p \in DOMAIN inv :
                  (NotesIn(store.highlights) # {} /\ inv[p].pc = "getArticle") =>
                      CallsOf(inv'[p], {"createHighlight"}) = {} ]_vars

\* a later invocation has updated the note an earlier one created
C20_Witness ==
    /\ store.highlights = <<Note(Uuid3)>>
    /\ inv[1].pc = "done" /\ inv[1].status = 200
    /\ \E k \in CallsOf(inv[1], {"updateHighlight"}) :
          inv[1].calls[k].payload.highlightId = Uuid3

\* the invocation has sent a create-highlight mutation and Omnivore applied it
Created(r) ==
    /\ r.pc = "done" /\ r.failed = "none"
    /\ CallsOf(r, {"createHighlight"}) # {}

\* C21: with two overlapping annotation deliveries for an article without a
\* NOTE highlight, nothing in the handler prevents both from fetching the
\* article before either writes: each invocation that fetched an article
\* without a note takes the create path, whatever the article holds by then,
\* and once both creations are applied the article has two NOTE highlights.
C21_OverlapCreatesTwoNotes ==
    /\ \A p \in DOMAIN inv :
          (HasAnnotation(inv[p]) /\ NotesIn(inv[p].article.highlights) = {}) =>
              /\ CallsOf(inv[p], {"createHighlight"}) # {}
              /\ CallsOf(inv[p], {"updateHighlight"}) = {}
    /\ \A p, q \in DOMAIN inv :
          (p # q /\ Created(inv[p]) /\ Created(inv[q])) =>
              Cardinality(NotesIn(store.highlights)) = 2

\* both deliveries fetched the article without a note, both created one
C21_Witness ==
    /\ inv[1].article.highlights = <<>>
    /\ inv[2].article.highlights = <<>>
    /\ Created(inv[1]) /\ Created(inv[2])
    /\ inv[1].status = 200 /\ inv[2].status = 200
    /\ Cardinality(NotesIn(store.highlights)) = 2

\* the names of the article's labels in Omnivore
StoredNames == {l.name : l \in Range(store.labels)}

\* the names the setLabels call of an invocation carries
SentBy(r) ==
    UNION {Range(sentNames(variant, r.calls[k].payload)) : k \in CallsOf(r, {"setLabels"})}

\* C22: with two overlapping tag-generation deliveries for one article, label
\* writes are last-write-wins: the article's label set after a setLabels call
\* is exactly the list that call sent, built from the labels its invocation
\* fetched, so tags written meanwhile by the other delivery are lost; the
\* handler performs no check of the label set's prior version.
C22_LastWriteWins ==
    [][ \A p \in DOMAIN inv :
            (inv[p].pc = "setLabels" /\ inv'[p].pc = "done" /\ inv'[p].failed = "none") =>
                /\ {l.name : l \in Range(store'.labels)} = SentBy(inv[p])
                /\ SentBy(inv[p]) =
                        {l.name : l \in Range(inv[p].article.labels)}
                            \cup TagNamesIn(inv[p].content)
                            \cup {LeadingReplaced(inv[p].labelActions[inv[p].current].label,
                                                  annotateLabel)} ]_vars

\* both deliveries fetched the labels {x}; the first wrote the tag y, the
\* second wrote last without it: y is lost although its write was answered 200
C22_Witness ==
    /\ namesOf(inv[1].article.labels) = << <<"x">> >>
    /\ namesOf(inv[2].article.labels) = << <<"x">> >>
    /\ inv[1].pc = "done" /\ inv[1].status = 200 /\ inv[1].failed = "none"
    /\ inv[2].pc = "done" /\ inv[2].status = 200 /\ inv[2].failed = "none"
    /\ <<"y">> \in SentBy(inv[1])
    /\ <<"y">> \notin SentBy(inv[2])
    /\ StoredNames = SentBy(inv[2])
    /\ <<"y">> \notin StoredNames

\* C24: in every reachable state of an invocation, every LabelAction of the
\* resolved list has done = false: the resolver creates each action with done
\* set to false and no later step changes it, in both label-resolving
\* handlers.
C24_DoneIsFalse ==
    \A p \in DOMAIN inv :
        \A i \in DOMAIN inv[p].labelActions :
            /\ "done" \in DOMAIN inv[p].labelActions[i]
            /\ inv[p].labelActions[i].done = FALSE

\* the names of the external calls of an invocation, in the order made
CallNames(r) == [k \in DOMAIN r.calls |-> r.calls[k].call]

\* a is an initial part of b
IsPrefix(a, b) == Len(a) <= Len(b) /\ a = SubSeq(b, 1, Len(a))

\* C25: within one invocation the external calls happen in a fixed order:
\* the article fetch, then (tag flow only) the workspace-label fetch, then the
\* completion call, then the write-back; no write-back is issued before the
\* completion call has returned, the annotation flow never fetches workspace
\* labels or calls setLabels, the tag flow never writes a note, and the
\* response is produced after the last external call.
C25_CallOrder ==
    /\ [](\A p \in DOMAIN inv :
            LET r == inv[p]
            IN  /\ r.flow = "none" => IsPrefix(CallNames(r), <<"getArticle">>)
                /\ r.flow = "tags" =>
                      IsPrefix(CallNames(r),
                               <<"getArticle", "getAllLabels", "completion", "setLabels">>)
                /\ r.flow = "annotate" =>
                      \E w \in NoteCalls :
                          IsPrefix(CallNames(r), <<"getArticle", "completion", w>>)
                /\ CallsOf(r, WriteBacks) # {} => CompletionReturned(r)
                /\ r.status # 0 <=> r.pc = "done")
    /\ [][\A p \in DOMAIN inv :
              inv[p].pc = "done" => inv'[p].calls = inv[p].calls]_vars

\* a tag flow that made its four calls and then answered
C25_Witness ==
    /\ inv[1].pc = "done" /\ inv[1].status = 200
    /\ CallNames(inv[1]) = <<"getArticle", "getAllLabels", "completion", "setLabels">>

\* C26: in the legacy handler, when the action is "do:tags" and at least one
\* new tag is generated, the label list sent to setLabels is the full new set:
\* the names of the article's labels, the generated tags and the did:
\* replacement of the action; no label of the article is dropped by the write.
C26_LegacyFullSet ==
    \A p \in DOMAIN inv :
        (variant = "legacy" /\ inv[p].content \in {<<"y">>, <<"x", "\n", "y">>}) =>
            \A k \in CallsOf(inv[p], {"setLabels"}) :
                /\ inv[p].body.action = do_tags
                /\ Range(inv[p].calls[k].payload) =
                        {l.name : l \in Range(inv[p].article.labels)}
                            \cup TagNamesIn(inv[p].content)
                            \cup {did_tags}

\* the event has no well-formed label entry, or none that matches the trigger
NoTriggerLabel(r) ==
    /\ Parsed(r)
    /\ WellFormed(r.body.labels)
    /\ QualifyingAt(r.body.labels, annotateLabel) = {}

\* C27: when the handler answers 400 because the event has no well-formed
\* label entry or no label matching the trigger, it has issued no outbound
\* call at all (no article fetch, no workspace-label fetch, no completion call,
\* no write-back), and the article in Omnivore is unchanged.
C27_NoCallOn400 ==
    /\ [](\A p \in DOMAIN inv :
            (NoTriggerLabel(inv[p]) /\ inv[p].status = 400) => inv[p].calls = <<>>)
    /\ [][\A p \in DOMAIN inv :
              (NoTriggerLabel(inv'[p]) /\ inv'[p].status = 400) => store' = store]_vars

\* an event whose only label is "doing" is answered 400 without a call
C27_Witness ==
    /\ inv[1].body.labels = <<NamedEntry(doing)>>
    /\ inv[1].pc = "done" /\ inv[1].status = 400
    /\ inv[1].calls = <<>>

\* the delivery carries the tags trigger label and another trigger label
TagsAndAnother(r) ==
    /\ do_tags \in Range(r.matchingLabels)
    /\ \E n \in Range(r.matchingLabels) : n # do_tags

\* C28: across any sequence of deliveries whose label list holds both do:tags
\* and another trigger label, handled by the logging handler, the other
\* operation is never run: every such delivery runs tag generation again,
\* whether or not did:tags is already on the article.
C28_TagsEveryTime ==
    \A p \in DOMAIN inv :
        (variant = "log" /\ TagsAndAnother(inv[p])) =>
            /\ Resolved(inv[p]) =>
                  /\ inv[p].flow = "tags"
                  /\ inv[p].labelActions[inv[p].current].label = do_tags
            /\ CallsOf(inv[p], NoteCalls) = {}
            /\ \A k \in CallsOf(inv[p], {"completion"}) :
                  startsWith(inv[p].calls[k].payload, <<"-", " ">> \o doTagsPrompt)

\* a later delivery finds did:tags on the article and generates tags again
C28_Witness ==
    /\ variant = "log"
    /\ inv[1].matchingLabels = <<do_sum, do_tags>>
    /\ did_tags \in Range(namesOf(inv[1].article.labels))
    /\ inv[1].flow = "tags"
    /\ inv[1].pc = "done" /\ inv[1].status = 200
    /\ CallsOf(inv[1], {"setLabels"}) # {}

\* C29: the tag-generation write-back never removes the trigger label:
\* whenever the fetched article carries do:tags, the list sent to setLabels
\* holds both do:tags and did:tags, and every other label of the fetched
\* article is in the list as well (the write only adds names).
C29_TriggerLabelKept ==
    \A p \in DOMAIN inv :
        \A k \in CallsOf(inv[p], {"setLabels"}) :
            LET sent == Range(sentNames(variant, inv[p].calls[k].payload))
                fetched == {l.name : l \in Range(inv[p].article.labels)}
            IN  /\ fetched \subseteq sent
                /\ do_tags \in fetched => {do_tags, did_tags} \subseteq sent

\* the article carried do:tags when fetched; the list written holds both
C29_Witness ==
    /\ namesOf(inv[1].article.labels) = <<do_tags>>
    /\ inv[1].pc = "done" /\ inv[1].status = 200
    /\ \E k \in CallsOf(inv[1], {"setLabels"}) :
          {do_tags, did_tags} \subseteq Range(sentNames(variant, inv[1].calls[k].payload))
    /\ {do_tags, did_tags} \subseteq StoredNames

\* C30: every invocation of the handler eventually produces exactly one
\* response, provided each external call it makes eventually returns or
\* throws: no path ends without a response, an exception raised after request
\* parsing starts is answered by the top-level catch, and a response once
\* produced is never followed by another step of the invocation.
C30_OneResponse ==
    /\ (\A p \in DOMAIN inv : inv[p].pc # "start")
           ~> (\A p \in DOMAIN inv : inv[p].pc = "done" /\ inv[p].status # 0)
    /\ [][\A p \in DOMAIN inv : inv[p].pc = "done" => inv'[p] = inv[p]]_vars
    /\ [](\A p \in DOMAIN inv : inv[p].threw => (inv[p].pc = "done" /\ inv[p].status = 500))

\* an exception raised by the completion call, answered by the catch
C30_Witness ==
    /\ inv[1].pc = "done"
    /\ inv[1].threw /\ inv[1].status = 500
    /\ inv[1].failed = "completion"

====
